---- MODULE Spec2Model ----
(***************************************************************************)
(* A model of xsv's `stats` command (src/cmd/stats.rs): the FieldType      *)
(* lattice, the per-column aggregate Stats (add / merge / to_record), the  *)
(* sequential and parallel execution strategies of `run`, and the          *)
(* finalization stage stats_to_records.                                    *)
(*                                                                         *)
(* Conventions.                                                            *)
(*  - A ByteString is a TLA+ string; Bytes(s) gives its bytes, which is    *)
(*    what ordering, UTF-8 validation and number parsing work on.          *)
(*  - Option<T> is a sequence: None == <<>>, Some(v) == <<v>>.             *)
(*  - An f64 is held exactly, as an integer number of halves (1.5 is 3);   *)
(*    sums of squares are in quarters.  Arithmetic is exact: rounding of   *)
(*    IEEE doubles is outside the model.  f64 values are rendered as       *)
(*    reduced fractions ("3/2"), integers as decimals.                     *)
(***************************************************************************)
EXTENDS Integers, Sequences, FiniteSets, TLC

None == <<>>
Some(v) == <<v>>
IsSome(o) == o # <<>>
Unwrap(o) == o[1]

(***************************************************************************)
(* Byte strings                                                            *)
(***************************************************************************)
\* The field values the model feeds: the empty field, an integer, a float,
\* text, and a field that is not valid UTF-8 (the single byte 0xFF).
Samples == {"", "2", "1.5", "a", "\\xFF"}

Bytes(s) ==
    CASE s = ""      -> <<>>
      [] s = "2"     -> <<50>>
      [] s = "1.5"   -> <<49, 46, 53>>
      [] s = "a"     -> <<97>>
      [] s = "\\xFF" -> <<255>>

RECURSIVE SeqLess(_, _)
\* lexicographic order of byte sequences (Ord for ByteString)
SeqLess(a, b) ==
    IF b = <<>> THEN FALSE
    ELSE IF a = <<>> THEN TRUE
    ELSE IF Head(a) # Head(b) THEN Head(a) < Head(b)
    ELSE SeqLess(Tail(a), Tail(b))

BytesLess(s, t) == SeqLess(Bytes(s), Bytes(t))
BytesLeq(s, t) == s = t \/ BytesLess(s, t)

\* str::from_utf8: the model's only non-ASCII byte is a lone 0xFF, invalid.
Utf8Valid(s) == \A i \in 1..Len(Bytes(s)) : Bytes(s)[i] < 128

\* String::from_utf8_lossy: invalid bytes become U+FFFD.
Lossy(s) == IF Utf8Valid(s) THEN s ELSE "\\uFFFD"

IsDigits(b) == Len(b) > 0 /\ \A i \in 1..Len(b) : b[i] >= 48 /\ b[i] <= 57

RECURSIVE DigitsVal(_)
DigitsVal(b) ==
    IF b = <<>> THEN 0
    ELSE 10 * DigitsVal(SubSeq(b, 1, Len(b) - 1)) + (b[Len(b)] - 48)

\* from_str::<i64> on the text of b
ParseI64Bytes(b) ==
    LET neg  == Len(b) > 0 /\ b[1] = 45
        body == IF neg THEN Tail(b) ELSE b
    IN  IF IsDigits(body)
        THEN Some(IF neg THEN 0 - DigitsVal(body) ELSE DigitsVal(body))
        ELSE None

DotAt(b) == {i \in 1..Len(b) : b[i] = 46}

\* from_str::<f64> on the text of b, in halves; the fractions the model
\* feeds are "", "0" and "5".
ParseF64Bytes(b) ==
    LET neg   == Len(b) > 0 /\ b[1] = 45
        body  == IF neg THEN Tail(b) ELSE b
        dots  == DotAt(body)
        d     == IF dots = {} THEN Len(body) + 1 ELSE CHOOSE i \in dots : TRUE
        ip    == SubSeq(body, 1, d - 1)
        fp    == SubSeq(body, d + 1, Len(body))
        fracOk == fp = <<>> \/ fp = <<48>> \/ fp = <<53>>
        half  == IF fp = <<53>> THEN 1 ELSE 0
        mag   == 2 * DigitsVal(ip) + half
    IN  IF Cardinality(dots) <= 1 /\ IsDigits(ip) /\ fracOk
        THEN Some(IF neg THEN 0 - mag ELSE mag)
        ELSE None

\* from_bytes::<T>: str::from_utf8(bytes).and_then(from_str)
FromBytesI64(s) == IF Utf8Valid(s) THEN ParseI64Bytes(Bytes(s)) ELSE None
FromBytesF64(s) == IF Utf8Valid(s) THEN ParseF64Bytes(Bytes(s)) ELSE None

\* the two parses of every sample of the alphabet, worked out once
ParsedSamples == {<<s, FromBytesI64(s), FromBytesF64(s)>> : s \in Samples}
from_bytes_i64(s) == (CHOOSE r \in ParsedSamples : r[1] = s)[2]
from_bytes_f64(s) == (CHOOSE r \in ParsedSamples : r[1] = s)[3]

\* `n as i64` for an f64 n held in halves: truncation toward zero
F64AsI64(h) == IF h >= 0 THEN h \div 2 ELSE 0 - ((0 - h) \div 2)

RECURSIVE Gcd(_, _)
Gcd(a, b) == IF b = 0 THEN a ELSE Gcd(b, a % b)
Abs(x) == IF x < 0 THEN 0 - x ELSE x

\* the text of the exact value num/den (den > 0)
RatToString(num, den) ==
    LET g == Gcd(Abs(num), den)
        n == num \div (IF g = 0 THEN 1 ELSE g)
        d == den \div (IF g = 0 THEN 1 ELSE g)
    IN  IF num = 0 THEN "0"
        ELSE IF d = 1 THEN ToString(n)
        ELSE ToString(n) \o "/" \o ToString(d)

I64ToString(n) == ToString(n)
F64ToString(h) == RatToString(h, 2)

(***************************************************************************)
(* FieldType                                                               *)
(***************************************************************************)
TUnknown == "TUnknown"
TNull == "TNull"
TUnicode == "TUnicode"
TFloat == "TFloat"
TInteger == "TInteger"
FieldType == {TUnknown, TNull, TUnicode, TFloat, TInteger}

\* the mutant of from_sample: whatever parses as f64 is called an integer
from_sample_NumbersAreIntegers(sample) ==
    IF sample = "" THEN TNull
    ELSE IF ~Utf8Valid(sample) THEN TUnknown
    ELSE IF IsSome(from_bytes_f64(sample)) THEN TInteger
    ELSE TUnicode

\* FieldType::from_sample: empty, not UTF-8, then from_str::<i64> and
\* from_str::<f64> on the text
from_sample(sample) ==
    IF sample = "" THEN TNull
    ELSE IF ~Utf8Valid(sample) THEN TUnknown
    ELSE IF IsSome(from_bytes_i64(sample)) THEN TInteger
    ELSE IF IsSome(from_bytes_f64(sample)) THEN TFloat
    ELSE TUnicode

is_number(t) == t = TFloat \/ t = TInteger
is_null(t) == t = TNull

\* the mutant of FieldTypeMerge: the (TInteger, TFloat) arm is missing from
\* the "integers degrade to floats" pattern and the type stays TInteger
FieldTypeMergeOneSided(self, other) ==
    IF self = TUnicode /\ other = TUnicode THEN TUnicode
    ELSE IF self = TFloat /\ other = TFloat THEN TFloat
    ELSE IF self = TInteger /\ other = TInteger THEN TInteger
    ELSE IF self = TNull THEN other
    ELSE IF other = TNull THEN self
    ELSE IF self = TUnknown \/ other = TUnknown THEN TUnknown
    ELSE IF self = TFloat /\ other = TInteger THEN TFloat
    ELSE IF self = TInteger /\ other = TFloat THEN TInteger
    ELSE TUnicode

\* the mutant of FieldTypeMerge: (TFloat, TInteger) gives TInteger, so a
\* Float column that meets an integer goes back to Integer
FieldTypeMergeNarrows(self, other) ==
    IF self = TUnicode /\ other = TUnicode THEN TUnicode
    ELSE IF self = TFloat /\ other = TFloat THEN TFloat
    ELSE IF self = TInteger /\ other = TInteger THEN TInteger
    ELSE IF self = TNull THEN other
    ELSE IF other = TNull THEN self
    ELSE IF self = TUnknown \/ other = TUnknown THEN TUnknown
    ELSE IF self = TInteger /\ other = TFloat THEN TFloat
    ELSE IF self = TFloat /\ other = TInteger THEN TInteger
    ELSE TUnicode

\* impl Commute for FieldType: the arms of the match, first match wins
FieldTypeMerge(self, other) ==
    IF self = TUnicode /\ other = TUnicode THEN TUnicode
    ELSE IF self = TFloat /\ other = TFloat THEN TFloat
    ELSE IF self = TInteger /\ other = TInteger THEN TInteger
    ELSE IF self = TNull THEN other
    ELSE IF other = TNull THEN self
    ELSE IF self = TUnknown \/ other = TUnknown THEN TUnknown
    ELSE IF (self = TFloat /\ other = TInteger)
            \/ (self = TInteger /\ other = TFloat) THEN TFloat
    ELSE TUnicode

FieldTypeDefault == TInteger

FieldTypeToString(t) ==
    CASE t = TUnknown -> "Unknown"
      [] t = TNull    -> "NULL"
      [] t = TUnicode -> "Unicode"
      [] t = TFloat   -> "Float"
      [] t = TInteger -> "Integer"

(***************************************************************************)
(* The aggregators of the `stats` crate, as stats.rs uses them             *)
(***************************************************************************)
IntLess(a, b) == a < b

\* T's order: ByteString ("bytes") compares bytewise, i64 and f64 by value
Less(kind, a, b) == IF kind = "bytes" THEN BytesLess(a, b) ELSE a < b

\* MinMax<T>: the least and the greatest sample seen, None before the first
MinMaxDefault == [min |-> None, max |-> None]

MinMaxAdd(mm, v, kind) ==
    [min |-> IF mm.min = None \/ Less(kind, v, Unwrap(mm.min)) THEN Some(v) ELSE mm.min,
     max |-> IF mm.max = None \/ Less(kind, Unwrap(mm.max), v) THEN Some(v) ELSE mm.max]

MinMaxMerge(a, b, kind) ==
    [min |-> IF b.min = None THEN a.min
             ELSE IF a.min = None \/ Less(kind, Unwrap(b.min), Unwrap(a.min)) THEN b.min
             ELSE a.min,
     max |-> IF b.max = None THEN a.max
             ELSE IF a.max = None \/ Less(kind, Unwrap(a.max), Unwrap(b.max)) THEN b.max
             ELSE a.max]

\* OnlineStats: population size, mean and variance, held as the exact
\* (size, sum, sum of squares) they are computed from.
OnlineDefault == [size |-> 0, sum |-> 0, sumsq |-> 0]
OnlineAdd(o, h) == [size |-> o.size + 1, sum |-> o.sum + h, sumsq |-> o.sumsq + h * h]
\* add_null: a NULL counts in the population (as a sample of 0)
OnlineAddNull(o) == OnlineAdd(o, 0)
OnlineMerge(a, b) ==
    [size |-> a.size + b.size, sum |-> a.sum + b.sum, sumsq |-> a.sumsq + b.sumsq]
OnlineMeanString(o) ==
    IF o.size = 0 THEN "0" ELSE RatToString(o.sum, 2 * o.size)
OnlineStddevString(o) ==
    LET p == o.size * o.sumsq - o.sum * o.sum
    IN  IF o.size = 0 \/ p = 0 THEN "0"
        ELSE "sqrt(" \o RatToString(p, 4 * o.size * o.size) \o ")"

\* Unsorted<T>: a vector of samples, sorted when a statistic is asked for
UnsortedDefault == <<>>
UnsortedAdd(u, v) == Append(u, v)
\* the mutant of UnsortedMerge: the other operand's samples are dropped
UnsortedMergeKeepsSelf(a, b) == a
UnsortedMerge(a, b) == a \o b

\* median over the sorted f64 buffer, in quarters; None when empty
UnsortedMedian(u) ==
    LET s == SortSeq(u, IntLess)
        n == Len(s)
    IN  IF n = 0 THEN None
        ELSE IF n % 2 = 1 THEN Some(2 * s[(n + 1) \div 2])
        ELSE Some(s[n \div 2] + s[n \div 2 + 1])
MedianToString(q) == RatToString(q, 4)

UnsortedCardinality(u) == Cardinality({u[i] : i \in 1..Len(u)})

RECURSIVE ModeOnSorted(_, _, _, _, _)
\* mode_on_sorted: one pass over the sorted samples with a current mode and
\* a challenger; a tie for the highest count leaves no mode.
ModeOnSorted(s, mode, mode_count, next, next_count) ==
    IF s = <<>> THEN mode
    ELSE LET x  == Head(s)
             m1 == IF mode = Some(x) THEN mode_count + 1 ELSE mode_count
             n1 == IF mode = Some(x) THEN next
                   ELSE IF next = Some(x) THEN next ELSE Some(x)
             c1 == IF mode = Some(x) THEN next_count
                   ELSE IF next = Some(x) THEN next_count + 1 ELSE 0
         IN  IF c1 > m1 THEN ModeOnSorted(Tail(s), n1, c1, None, 0)
             ELSE IF c1 = m1 THEN ModeOnSorted(Tail(s), None, 0, n1, c1)
             ELSE ModeOnSorted(Tail(s), mode, m1, n1, c1)

UnsortedMode(u) == ModeOnSorted(SortSeq(u, BytesLess), None, 0, None, 0)

(***************************************************************************)
(* TypedMinMax                                                             *)
(***************************************************************************)
TypedMinMaxDefault ==
    [strings |-> MinMaxDefault, integers |-> MinMaxDefault, floats |-> MinMaxDefault]

\* the unwrap()s and the unreachable!() of TypedMinMax::add
TypedMinMaxAddPanics(typ, sample) ==
    /\ sample # ""
    /\ \/ typ = TFloat /\ from_bytes_f64(sample) = None
       \/ typ = TInteger /\ from_bytes_i64(sample) = None
       \/ typ = TNull

\* the mutant of TypedMinMaxAdd: the empty sample reaches the byte-string
\* bounds before the is_empty() test
TypedMinMaxAddCountsEmpty(self, typ, sample) ==
    LET withStr == [self EXCEPT !.strings = MinMaxAdd(@, sample, "bytes")]
    IN  IF sample = "" THEN withStr
        ELSE IF typ = TFloat
        THEN LET n == Unwrap(from_bytes_f64(sample))
             IN  [withStr EXCEPT !.floats = MinMaxAdd(@, n, "f64"),
                                 !.integers = MinMaxAdd(@, F64AsI64(n), "i64")]
        ELSE IF typ = TInteger
        THEN LET n == Unwrap(from_bytes_i64(sample))
             IN  [withStr EXCEPT !.integers = MinMaxAdd(@, n, "i64")]
        ELSE withStr

\* TypedMinMax::add
TypedMinMaxAdd(self, typ, sample) ==
    IF sample = "" THEN self
    ELSE LET withStr == [self EXCEPT !.strings = MinMaxAdd(@, sample, "bytes")]
         IN  IF typ = TFloat
             THEN LET n == Unwrap(from_bytes_f64(sample))
                  IN  [withStr EXCEPT !.floats = MinMaxAdd(@, n, "f64"),
                                      !.integers = MinMaxAdd(@, F64AsI64(n), "i64")]
             ELSE IF typ = TInteger
             THEN LET n == Unwrap(from_bytes_i64(sample))
                  IN  [withStr EXCEPT !.integers = MinMaxAdd(@, n, "i64")]
             ELSE withStr

TypedMinMaxShowPanics(typ) == typ = TNull

\* Option<(String, String)>
TypedMinMaxShow(self, typ) ==
    IF typ = TUnicode \/ typ = TUnknown
    THEN IF IsSome(self.strings.min) /\ IsSome(self.strings.max)
         THEN Some(<<Lossy(Unwrap(self.strings.min)), Lossy(Unwrap(self.strings.max))>>)
         ELSE None
    ELSE IF typ = TInteger
    THEN IF IsSome(self.integers.min) /\ IsSome(self.integers.max)
         THEN Some(<<I64ToString(Unwrap(self.integers.min)),
                     I64ToString(Unwrap(self.integers.max))>>)
         ELSE None
    ELSE IF IsSome(self.floats.min) /\ IsSome(self.floats.max)
         THEN Some(<<F64ToString(Unwrap(self.floats.min)),
                     F64ToString(Unwrap(self.floats.max))>>)
         ELSE None

TypedMinMaxMerge(a, b) ==
    [strings  |-> MinMaxMerge(a.strings, b.strings, "bytes"),
     integers |-> MinMaxMerge(a.integers, b.integers, "i64"),
     floats   |-> MinMaxMerge(a.floats, b.floats, "f64")]

(***************************************************************************)
(* WhichStats and Stats                                                    *)
(***************************************************************************)
WhichStats ==
    [include_nulls : BOOLEAN, range : BOOLEAN, dist : BOOLEAN,
     cardinality : BOOLEAN, median : BOOLEAN, mode : BOOLEAN]

\* the mutant of WhichStatsMergePanics: only the flags that select
\* sub-aggregators are compared
WhichStatsMergePanicsOnShape(self, other) ==
    [self EXCEPT !.include_nulls = FALSE] # [other EXCEPT !.include_nulls = FALSE]

\* impl Commute for WhichStats: assert_eq!(*self, other)
WhichStatsMergePanics(self, other) == self # other

\* the mutant of StatsNew: the byte-string buffer is built for mode alone
StatsNewBufferForModeOnly(which) ==
    [typ    |-> FieldTypeDefault,
     minmax |-> IF which.range THEN Some(TypedMinMaxDefault) ELSE None,
     online |-> IF which.dist THEN Some(OnlineDefault) ELSE None,
     mode   |-> IF which.mode THEN Some(UnsortedDefault) ELSE None,
     median |-> IF which.median THEN Some(UnsortedDefault) ELSE None,
     which  |-> which]

\* Stats::new
StatsNew(which) ==
    [typ    |-> FieldTypeDefault,
     minmax |-> IF which.range THEN Some(TypedMinMaxDefault) ELSE None,
     online |-> IF which.dist THEN Some(OnlineDefault) ELSE None,
     mode   |-> IF which.mode \/ which.cardinality THEN Some(UnsortedDefault) ELSE None,
     median |-> IF which.median THEN Some(UnsortedDefault) ELSE None,
     which  |-> which]

\* the unwrap()s of Stats::add and of the TypedMinMax::add it calls
StatsAddPanics(self, sample) ==
    LET sample_type == from_sample(sample)
        t == FieldTypeMerge(self.typ, sample_type)
    IN  \/ IsSome(self.minmax) /\ TypedMinMaxAddPanics(t, sample)
        \/ is_number(t) /\ ~is_null(sample_type) /\ from_bytes_f64(sample) = None

\* Option::as_mut().map(f) leaves None alone: each sub-aggregator is fed
\* only if it is there
StatsAdd(self, sample) ==
    LET sample_type == from_sample(sample)
        t == FieldTypeMerge(self.typ, sample_type)
        n == Unwrap(from_bytes_f64(sample))
        s1 == [self EXCEPT
                 !.typ = t,
                 !.minmax = IF @ = None THEN None
                            ELSE Some(TypedMinMaxAdd(Unwrap(@), t, sample)),
                 !.mode = IF @ = None THEN None
                          ELSE Some(UnsortedAdd(Unwrap(@), sample))]
    IN  IF is_number(t)
        THEN IF is_null(sample_type)
             THEN IF self.which.include_nulls
                  THEN [s1 EXCEPT !.online = IF @ = None THEN None
                                             ELSE Some(OnlineAddNull(Unwrap(@)))]
                  ELSE s1
             ELSE [s1 EXCEPT !.median = IF @ = None THEN None
                                        ELSE Some(UnsortedAdd(Unwrap(@), n)),
                             !.online = IF @ = None THEN None
                                        ELSE Some(OnlineAdd(Unwrap(@), n))]
        ELSE s1

\* impl Commute for Option<T>, for each T that Stats holds
OptionMergeMinMax(a, b) ==
    IF a = None THEN b ELSE IF b = None THEN a
    ELSE Some(TypedMinMaxMerge(Unwrap(a), Unwrap(b)))
OptionMergeOnline(a, b) ==
    IF a = None THEN b ELSE IF b = None THEN a
    ELSE Some(OnlineMerge(Unwrap(a), Unwrap(b)))
OptionMergeUnsorted(a, b) ==
    IF a = None THEN b ELSE IF b = None THEN a
    ELSE Some(UnsortedMerge(Unwrap(a), Unwrap(b)))

\* impl Commute for Stats: the five field merges, then which.merge
StatsMerge(self, other) ==
    [typ    |-> FieldTypeMerge(self.typ, other.typ),
     minmax |-> OptionMergeMinMax(self.minmax, other.minmax),
     online |-> OptionMergeOnline(self.online, other.online),
     mode   |-> OptionMergeUnsorted(self.mode, other.mode),
     median |-> OptionMergeUnsorted(self.median, other.median),
     which  |-> self.which]

StatsMergePanics(self, other) == WhichStatsMergePanics(self.which, other.which)

\* the pieces of Stats::to_record, in the order they are pushed
RecType(self) == <<FieldTypeToString(self.typ)>>

RecMinMax(self) ==
    LET shown == IF self.minmax = None THEN None
                 ELSE TypedMinMaxShow(Unwrap(self.minmax), self.typ)
    IN  IF IsSome(shown) THEN <<Unwrap(shown)[1], Unwrap(shown)[2]>> ELSE <<"", "">>

RecDist(self) ==
    IF ~is_number(self.typ) THEN <<"", "">>
    ELSE IF IsSome(self.online)
         THEN <<OnlineMeanString(Unwrap(self.online)),
                OnlineStddevString(Unwrap(self.online))>>
         ELSE <<"", "">>

RecMedian(self) ==
    LET m == IF self.median = None THEN None ELSE UnsortedMedian(Unwrap(self.median))
    IN  IF m = None
        THEN IF self.which.median THEN <<"">> ELSE <<>>
        ELSE <<MedianToString(Unwrap(m))>>

\* the mutant of ModeField: no mode is shown as the empty string
ModeFieldOrEmpty(v) ==
    IF UnsortedMode(v) = None THEN "" ELSE Lossy(Unwrap(UnsortedMode(v)))

\* v.mode().map(lossy).unwrap_or("N/A")
ModeField(v) ==
    IF UnsortedMode(v) = None THEN "N/A" ELSE Lossy(Unwrap(UnsortedMode(v)))

\* v.cardinality().to_string()
CardinalityField(v) == ToString(UnsortedCardinality(v))

\* the mutant of RecMode: the cardinality is pushed before the mode
RecModeCardinalityFirst(self) ==
    IF self.mode = None
    THEN (IF self.which.cardinality THEN <<"">> ELSE <<>>)
         \o (IF self.which.mode THEN <<"">> ELSE <<>>)
    ELSE (IF self.which.cardinality
          THEN <<ToString(UnsortedCardinality(Unwrap(self.mode)))>> ELSE <<>>)
         \o (IF self.which.mode
             THEN <<(IF UnsortedMode(Unwrap(self.mode)) = None THEN "N/A"
                     ELSE Lossy(Unwrap(UnsortedMode(Unwrap(self.mode)))))>>
             ELSE <<>>)

\* the match on self.mode in to_record: the mode, then the cardinality
RecMode(self) ==
    IF self.mode = None
    THEN (IF self.which.mode THEN <<"">> ELSE <<>>)
         \o (IF self.which.cardinality THEN <<"">> ELSE <<>>)
    ELSE (IF self.which.mode THEN <<ModeField(Unwrap(self.mode))>> ELSE <<>>)
         \o (IF self.which.cardinality
             THEN <<CardinalityField(Unwrap(self.mode))>> ELSE <<>>)

StatsToRecord(self) ==
    RecType(self) \o RecMinMax(self) \o RecDist(self) \o RecMedian(self) \o RecMode(self)

StatsToRecordPanics(self) == IsSome(self.minmax) /\ TypedMinMaxShowPanics(self.typ)

\* Args::new_stats: range and dist are always on, the rest come from flags
Flags == [nulls : BOOLEAN, cardinality : BOOLEAN, median : BOOLEAN, mode : BOOLEAN]

new_stats_which(flags) ==
    [include_nulls |-> flags.nulls, range |-> TRUE, dist |-> TRUE,
     cardinality |-> flags.cardinality, median |-> flags.median, mode |-> flags.mode]

\* Args::stat_headers, from the flags new_stats copied into `which`
stat_headers(which) ==
    <<"field", "type", "min", "max", "mean", "stddev">>
    \o (IF which.median THEN <<"median">> ELSE <<>>)
    \o (IF which.mode THEN <<"mode">> ELSE <<>>)
    \o (IF which.cardinality THEN <<"cardinality">> ELSE <<>>)

(***************************************************************************)
(* Bounds                                                                  *)
(***************************************************************************)
\* samples fed to one column
MaxLen == 3
\* chunks one column's samples are cut into
MaxChunks == 2
\* data rows of the input
MaxRows == 3
\* the largest --jobs given
MaxJobs == 2
\* os::num_cpus() of the machine
NumCpus == 3
\* selected columns handed to stats_to_records
MaxCols == 3

(***************************************************************************)
(* State                                                                   *)
(***************************************************************************)
VARIABLES
    \* one column, aggregated in one pass and in chunks
    whole,      \* Stats fed every sample, or None
    parts,      \* Seq(Stats): one aggregate per chunk, merged pairwise later
    fed,        \* the samples fed so far, in order (history)
    chunkLen,   \* how many of them went to the current chunk (history)
    aphase,     \* "feed", "merge", "done", "panic", or "idle"
    arec,       \* the two finalized records once aphase = "done"
    mixCfg,     \* the WhichStats the two aggregates of SpecMix were built with
    \* the FieldType join on its own
    jin,        \* the three operands
    jout,       \* the joins computed from them, or None
    \* run: the input and the arguments
    rows,       \* the data rows of the input: [ok, fields], ok = FALSE if malformed
    eflags,     \* --nulls, --cardinality, --median, --mode
    idx,        \* whether rconfig().indexed() finds an index
    flag_jobs,  \* --jobs
    \* run: the main task
    mpc,        \* where the main task is
    estrategy,  \* "none", "sequential" or "parallel"
    pos,        \* rows added (sequential) or chunks dispatched (parallel)
    estats,     \* Option<Vec<Stats>>: compute's vector, or merge_all's accumulator
    out,        \* the rows written to the output
    \* run: the task pool and the result channel of parallel_stats
    queue,      \* per pool worker, the chunks queued to it
    wstate,     \* per pool worker: "alive", "unwinding" (its task panicked), "dead"
    chan,       \* the vectors sent and not yet received: [chunk, stats]
    merged,     \* the chunks whose vector the collector has merged (history)
    failedTasks,\* the chunks whose task panicked (history)
    \* stats_to_records on its own
    fstats,     \* the Vec<Stats> passed in
    fpc,        \* where the calling task is: "execute", "recv", "done", "failed"
    fi,         \* the index of the column it is dispatching or receiving
    fqueue,     \* per pool worker, the columns whose proc is queued to it
    fchan,      \* per column, its channel: None, Some(record), or "closed"
    frecords,   \* `records`
    fdone       \* the columns in the order their procs ran (history)

aggVars == <<whole, parts, fed, chunkLen, aphase, arec, mixCfg>>
joinVars == <<jin, jout>>
engVars == <<rows, eflags, idx, flag_jobs, mpc, estrategy, pos, estats, out,
             queue, wstate, chan, merged, failedTasks>>
finVars == <<fstats, fpc, fi, fqueue, fchan, frecords, fdone>>
vars == <<aggVars, joinVars, engVars, finVars>>

AggIdle ==
    /\ whole = None /\ parts = <<>> /\ fed = <<>> /\ chunkLen = 0
    /\ aphase = "idle" /\ arec = None /\ mixCfg = None
JoinIdle == jin = None /\ jout = None
EngIdle ==
    /\ rows = <<>> /\ eflags = None /\ idx = FALSE /\ flag_jobs = 1
    /\ mpc = "idle" /\ estrategy = "none" /\ pos = 0 /\ estats = None /\ out = <<>>
    /\ queue = <<>> /\ wstate = <<>> /\ chan = <<>> /\ merged = <<>>
    /\ failedTasks = {}
FinIdle ==
    /\ fstats = <<>> /\ fpc = "idle" /\ fi = 0 /\ fqueue = <<>> /\ fchan = <<>>
    /\ frecords = <<>> /\ fdone = <<>>

Range(s) == {s[i] : i \in 1..Len(s)}
RemoveAt(s, j) == SubSeq(s, 1, j - 1) \o SubSeq(s, j + 1, Len(s))

(***************************************************************************)
(* SpecAgg: one column's samples, aggregated whole and in chunks           *)
(***************************************************************************)
InitAgg ==
    /\ \E f \in Flags :
          /\ whole = Some(StatsNew(new_stats_which(f)))
          /\ parts = <<StatsNew(new_stats_which(f))>>
    /\ fed = <<>>
    /\ chunkLen = 0
    /\ aphase = "feed"
    /\ arec = None
    /\ mixCfg = None
    /\ JoinIdle
    /\ EngIdle
    /\ FinIdle

\* Stats::add of the next sample, on the one-pass aggregate and on the
\* aggregate of the current (last) chunk
AggAdd(s) ==
    /\ aphase = "feed"
    /\ Len(fed) < MaxLen
    /\ ~StatsAddPanics(Unwrap(whole), s)
    /\ ~StatsAddPanics(parts[Len(parts)], s)
    /\ whole' = Some(StatsAdd(Unwrap(whole), s))
    /\ parts' = [parts EXCEPT ![Len(parts)] = StatsAdd(@, s)]
    /\ fed' = Append(fed, s)
    /\ chunkLen' = chunkLen + 1
    /\ UNCHANGED <<aphase, arec, mixCfg, joinVars, engVars, finVars>>

\* the current chunk, which holds at least one sample, ends; the next one
\* gets a fresh aggregate (compute's new_stats) with the same configuration
AggCut ==
    /\ aphase = "feed"
    /\ Len(parts) < MaxChunks
    /\ chunkLen > 0
    /\ Len(fed) < MaxLen
    /\ parts' = Append(parts, StatsNew(Unwrap(whole).which))
    /\ chunkLen' = 0
    /\ UNCHANGED <<whole, fed, aphase, arec, mixCfg, joinVars, engVars, finVars>>

\* Stats::merge of any two chunk aggregates, in either operand order
AggMerge(i, j) ==
    /\ aphase \in {"feed", "merge"}
    /\ i \in 1..Len(parts) /\ j \in 1..Len(parts) /\ i # j
    /\ chunkLen > 0
    /\ ~StatsMergePanics(parts[i], parts[j])
    /\ parts' = RemoveAt([parts EXCEPT ![i] = StatsMerge(parts[i], parts[j])], j)
    /\ aphase' = "merge"
    /\ UNCHANGED <<whole, fed, chunkLen, arec, mixCfg, joinVars, engVars, finVars>>

\* Stats::to_record of the one-pass aggregate and of the merged one
AggFinalize ==
    /\ aphase \in {"feed", "merge"}
    /\ Len(parts) = 1
    /\ ~StatsToRecordPanics(Unwrap(whole)) /\ ~StatsToRecordPanics(parts[1])
    /\ arec' = Some([whole |-> StatsToRecord(Unwrap(whole)),
                     merged |-> StatsToRecord(parts[1])])
    /\ aphase' = "done"
    /\ UNCHANGED <<whole, parts, fed, chunkLen, mixCfg, joinVars, engVars, finVars>>

NextAgg ==
    \/ \E s \in Samples : AggAdd(s)
    \/ AggCut
    \/ \E i \in 1..MaxChunks + 1, j \in 1..MaxChunks + 1 : AggMerge(i, j)
    \/ AggFinalize

SpecAgg == InitAgg /\ [][NextAgg]_vars

(***************************************************************************)
(* SpecMix: Stats::merge of two aggregates built with any two WhichStats   *)
(***************************************************************************)
\* the samples fed in SpecMix
MixSamples == {"2"}

InitMix ==
    /\ \E w1 \in WhichStats, w2 \in WhichStats :
          /\ parts = <<StatsNew(w1), StatsNew(w2)>>
          /\ mixCfg = Some(<<w1, w2>>)
    /\ whole = None
    /\ fed = <<>>
    /\ chunkLen = 0
    /\ aphase = "feed"
    /\ arec = None
    /\ JoinIdle
    /\ EngIdle
    /\ FinIdle

\* Stats::add on either aggregate
MixAdd(i, s) ==
    /\ aphase = "feed"
    /\ Len(fed) < MaxLen
    /\ ~StatsAddPanics(parts[i], s)
    /\ parts' = [parts EXCEPT ![i] = StatsAdd(@, s)]
    /\ fed' = Append(fed, s)
    /\ UNCHANGED <<whole, chunkLen, aphase, arec, mixCfg, joinVars, engVars, finVars>>

\* parts[1].merge(parts[2]): the field merges, then which.merge, whose
\* assert_eq! panics when the two WhichStats differ
MixMerge ==
    /\ aphase = "feed"
    /\ \/ /\ StatsMergePanics(parts[1], parts[2])
          /\ aphase' = "panic"
          /\ UNCHANGED parts
       \/ /\ ~StatsMergePanics(parts[1], parts[2])
          /\ aphase' = "merge"
          /\ parts' = <<StatsMerge(parts[1], parts[2])>>
    /\ UNCHANGED <<whole, fed, chunkLen, arec, mixCfg, joinVars, engVars, finVars>>

NextMix ==
    \/ \E i \in 1..2, s \in MixSamples : MixAdd(i, s)
    \/ MixMerge

SpecMix == InitMix /\ [][NextMix]_vars

(***************************************************************************)
(* SpecJoin: FieldType::merge on any three operands                        *)
(***************************************************************************)
InitJoin ==
    /\ jin \in {Some(<<x, y, z>>) : x \in FieldType, y \in FieldType, z \in FieldType}
    /\ jout = None
    /\ AggIdle
    /\ EngIdle
    /\ FinIdle

\* self.merge(other) applied to the operands in the groupings the lattice
\* laws speak of
JoinApply ==
    /\ jout = None
    /\ LET x == Unwrap(jin)[1]
           y == Unwrap(jin)[2]
           z == Unwrap(jin)[3]
       IN  jout' = Some([xy   |-> FieldTypeMerge(x, y),
                         yx   |-> FieldTypeMerge(y, x),
                         xy_z |-> FieldTypeMerge(FieldTypeMerge(x, y), z),
                         x_yz |-> FieldTypeMerge(x, FieldTypeMerge(y, z)),
                         xx   |-> FieldTypeMerge(x, x),
                         nx   |-> FieldTypeMerge(TNull, x),
                         ux   |-> FieldTypeMerge(TUnknown, x)])
    /\ UNCHANGED <<jin, aggVars, engVars, finVars>>

NextJoin == JoinApply

SpecJoin == InitJoin /\ [][NextJoin]_vars

(***************************************************************************)
(* Spec: run, with sequential_stats and parallel_stats                     *)
(***************************************************************************)
\* the selected header names; the selection has one position per name
Headers == <<"h1", "h2">>
SelLen == Len(Headers)

\* the rows an input is made of: well-formed rows of SelLen fields, and a
\* malformed row, on which the reader yields an error
GoodRows == {[ok |-> TRUE, fields |-> <<"2", "a">>],
             [ok |-> TRUE, fields |-> <<"1.5", "2">>]}
BadRow == [ok |-> FALSE, fields |-> <<>>]
RowValues == GoodRows \cup {BadRow}

EngineFlags ==
    {[nulls |-> FALSE, cardinality |-> FALSE, median |-> FALSE, mode |-> FALSE],
     [nulls |-> TRUE, cardinality |-> TRUE, median |-> TRUE, mode |-> TRUE]}

RECURSIVE SeqsUpTo(_, _)
\* the sequences over S of length at most n
SeqsUpTo(S, n) ==
    IF n = 0 THEN {<<>>}
    ELSE LET shorter == SeqsUpTo(S, n - 1)
         IN  shorter \cup {Append(q, x) : q \in shorter, x \in S}

\* the mutant of UseParallel: --jobs 0 taken for "one job"
UseParallelJobsAtMostOne(index, jobs) == index /\ jobs > 1

\* run's match on indexed(): parallel_stats iff there is an index and
\* --jobs is not 1
UseParallel(index, jobs) == index /\ jobs # 1

njobs == IF flag_jobs = 0 THEN NumCpus ELSE flag_jobs

\* Args::new_stats(record_len)
new_stats(record_len) == [i \in 1..record_len |-> StatsNew(new_stats_which(eflags))]

\* idx.count() / self.njobs()
chunk_size == Len(rows) \div njobs

\* util::num_of_chunks(nitems, chunk_size): ceil(nitems / chunk_size)
num_of_chunks(nitems, size) == (nitems + size - 1) \div size

nchunks == num_of_chunks(Len(rows), chunk_size)

\* what task i reads: seek(i * chunk_size), then take(chunk_size)
ChunkRows(i) ==
    SubSeq(rows, i * chunk_size + 1,
           IF (i + 1) * chunk_size < Len(rows) THEN (i + 1) * chunk_size ELSE Len(rows))

\* the row loop body of compute: stats[i].add(field) for each selected field
RowAddPanics(stats, row) ==
    \E i \in 1..Len(stats) : StatsAddPanics(stats[i], row.fields[i])

RowAdd(stats, row) == [i \in 1..Len(stats) |-> StatsAdd(stats[i], row.fields[i])]

RECURSIVE ComputeFrom(_, _)
\* Args::compute from `stats` on: Err (ok = FALSE) at the first malformed
\* row, a panic if an add panics, else the vector after the last row
ComputeFrom(stats, rs) ==
    IF rs = <<>> THEN [ok |-> TRUE, panic |-> FALSE, stats |-> stats]
    ELSE IF ~Head(rs).ok THEN [ok |-> FALSE, panic |-> FALSE, stats |-> stats]
    ELSE IF RowAddPanics(stats, Head(rs))
    THEN [ok |-> FALSE, panic |-> TRUE, stats |-> stats]
    ELSE ComputeFrom(RowAdd(stats, Head(rs)), Tail(rs))

compute(rs) == ComputeFrom(new_stats(SelLen), rs)

\* impl Commute for Vec<T>: the elements are merged pairwise
VecMergePanics(a, b) == \E i \in 1..Len(a) : StatsMergePanics(a[i], b[i])
VecMerge(a, b) == [i \in 1..Len(a) |-> StatsMerge(a[i], b[i])]

\* Args::stats_to_records, as the function it computes
RecordsOf(stats) == [i \in 1..Len(stats) |-> StatsToRecord(stats[i])]

\* the rows run writes: stat_headers, then one row per selected column
OutputOf(stats) ==
    <<stat_headers(new_stats_which(eflags))>>
    \o [i \in 1..Len(stats) |-> <<Headers[i]>> \o RecordsOf(stats)[i]]

ProcessAlive == mpc \notin {"idle", "done", "failed"}

Init ==
    /\ rows \in SeqsUpTo(RowValues, MaxRows)
    /\ eflags \in EngineFlags
    /\ idx \in BOOLEAN
    /\ flag_jobs \in 0..MaxJobs
    /\ mpc = "run"
    /\ estrategy = "none"
    /\ pos = 0
    /\ estats = None
    /\ out = <<>>
    /\ queue = <<>> /\ wstate = <<>> /\ chan = <<>>
    /\ merged = <<>> /\ failedTasks = {}
    /\ AggIdle
    /\ JoinIdle
    /\ FinIdle

\* run: indexed() and the choice of the strategy; sequential_stats starts
\* compute with a fresh vector
Decide ==
    /\ mpc = "run"
    /\ IF UseParallel(idx, flag_jobs)
       THEN /\ estrategy' = "parallel"
            /\ mpc' = "par"
            /\ UNCHANGED estats
       ELSE /\ estrategy' = "sequential"
            /\ mpc' = "seq"
            /\ estats' = Some(new_stats(SelLen))
    /\ UNCHANGED <<rows, eflags, idx, flag_jobs, pos, out, queue, wstate, chan,
                   merged, failedTasks, aggVars, joinVars, finVars>>

\* the mutant of SeqRow: a malformed row is skipped and the loop goes on
SeqRowSkipsMalformed ==
    /\ mpc = "seq"
    /\ pos < Len(rows)
    /\ LET row == rows[pos + 1]
       IN  IF ~row.ok
           THEN /\ pos' = pos + 1
                /\ UNCHANGED <<mpc, estats>>
           ELSE IF ~RowAddPanics(Unwrap(estats), row)
           THEN /\ estats' = Some(RowAdd(Unwrap(estats), row))
                /\ pos' = pos + 1
                /\ UNCHANGED mpc
           ELSE /\ mpc' = "failed"
                /\ UNCHANGED <<estats, pos>>
    /\ UNCHANGED <<rows, eflags, idx, flag_jobs, estrategy, out, queue, wstate, chan,
                   merged, failedTasks, aggVars, joinVars, finVars>>

\* compute's loop in the main task: the next row is added, or it is
\* malformed and try! returns the error from compute, sequential_stats and run
SeqRow ==
    /\ mpc = "seq"
    /\ pos < Len(rows)
    /\ LET row == rows[pos + 1]
       IN  IF row.ok /\ ~RowAddPanics(Unwrap(estats), row)
           THEN /\ estats' = Some(RowAdd(Unwrap(estats), row))
                /\ pos' = pos + 1
                /\ UNCHANGED mpc
           ELSE /\ mpc' = "failed"
                /\ UNCHANGED <<estats, pos>>
    /\ UNCHANGED <<rows, eflags, idx, flag_jobs, estrategy, out, queue, wstate, chan,
                   merged, failedTasks, aggVars, joinVars, finVars>>

\* the row iterator is exhausted: compute returns Ok(stats)
SeqEnd ==
    /\ mpc = "seq"
    /\ pos = Len(rows)
    /\ mpc' = "convert"
    /\ UNCHANGED <<rows, eflags, idx, flag_jobs, estrategy, pos, estats, out, queue,
                   wstate, chan, merged, failedTasks, aggVars, joinVars, finVars>>

\* parallel_stats up to the pool: chunk_size, nchunks (a division by a zero
\* chunk_size panics), TaskPool::new(njobs) and the channel
ParStart ==
    /\ mpc = "par"
    /\ IF chunk_size = 0
       THEN /\ mpc' = "failed"
            /\ UNCHANGED <<queue, wstate>>
       ELSE /\ mpc' = "dispatch"
            /\ queue' = [w \in 1..njobs |-> <<>>]
            /\ wstate' = [w \in 1..njobs |-> "alive"]
    /\ UNCHANGED <<rows, eflags, idx, flag_jobs, estrategy, pos, estats, out, chan,
                   merged, failedTasks, aggVars, joinVars, finVars>>

\* pool.execute(proc) for chunk pos: the proc, holding a clone of the sender,
\* is sent to the next worker in turn; sending to a worker whose receiver is
\* gone panics the main task
ParExecute ==
    /\ mpc = "dispatch"
    /\ pos < nchunks
    /\ LET w == (pos % njobs) + 1
       IN  IF wstate[w] = "dead"
           THEN /\ mpc' = "failed"
                /\ UNCHANGED <<queue, pos>>
           ELSE /\ queue' = [queue EXCEPT ![w] = Append(@, pos)]
                /\ pos' = pos + 1
                /\ UNCHANGED mpc
    /\ UNCHANGED <<rows, eflags, idx, flag_jobs, estrategy, estats, out, wstate, chan,
                   merged, failedTasks, aggVars, joinVars, finVars>>

\* drop(send), after the last execute
ParDropSend ==
    /\ mpc = "dispatch"
    /\ pos = nchunks
    /\ mpc' = "collect"
    /\ UNCHANGED <<rows, eflags, idx, flag_jobs, estrategy, pos, estats, out, queue,
                   wstate, chan, merged, failedTasks, aggVars, joinVars, finVars>>

\* a pool worker runs its next proc: it opens the index, seeks, computes the
\* chunk and sends the vector; if compute returns Err, unwrap() panics, the
\* proc's sender is dropped as the task starts to unwind, and nothing is sent
WorkerRun(w) ==
    /\ ProcessAlive
    /\ w \in DOMAIN wstate
    /\ wstate[w] = "alive"
    /\ queue[w] # <<>>
    /\ LET i == Head(queue[w])
           c == compute(ChunkRows(i))
       IN  IF c.ok
           THEN /\ chan' = Append(chan, [chunk |-> i, stats |-> c.stats])
                /\ UNCHANGED <<wstate, failedTasks>>
           ELSE /\ wstate' = [wstate EXCEPT ![w] = "unwinding"]
                /\ failedTasks' = failedTasks \cup {i}
                /\ UNCHANGED chan
    /\ queue' = [queue EXCEPT ![w] = Tail(@)]
    /\ UNCHANGED <<rows, eflags, idx, flag_jobs, mpc, estrategy, pos, estats, out,
                   merged, aggVars, joinVars, finVars>>

\* the panicked worker finishes unwinding: its receiver is dropped, and with
\* it the procs still queued to it and the senders they hold
WorkerDie(w) ==
    /\ ProcessAlive
    /\ w \in DOMAIN wstate
    /\ wstate[w] = "unwinding"
    /\ wstate' = [wstate EXCEPT ![w] = "dead"]
    /\ queue' = [queue EXCEPT ![w] = <<>>]
    /\ UNCHANGED <<rows, eflags, idx, flag_jobs, mpc, estrategy, pos, estats, out,
                   chan, merged, failedTasks, aggVars, joinVars, finVars>>

\* merge_all(recv.iter()): the next vector received becomes the accumulator
\* or is merged into it
ParCollect ==
    /\ mpc = "collect"
    /\ chan # <<>>
    /\ LET v == Head(chan)
       IN  /\ IF estats = None
              THEN /\ estats' = Some(v.stats)
                   /\ UNCHANGED mpc
              ELSE IF VecMergePanics(Unwrap(estats), v.stats)
              THEN /\ mpc' = "failed"
                   /\ UNCHANGED estats
              ELSE /\ estats' = Some(VecMerge(Unwrap(estats), v.stats))
                   /\ UNCHANGED mpc
           /\ merged' = Append(merged, v.chunk)
    /\ chan' = Tail(chan)
    /\ UNCHANGED <<rows, eflags, idx, flag_jobs, estrategy, pos, out, queue, wstate,
                   failedTasks, aggVars, joinVars, finVars>>

\* recv.iter() ends: the channel is empty and every sender is gone (no proc
\* is queued any more); merge_all of no vector is None, and unwrap() panics
ParCollectEnd ==
    /\ mpc = "collect"
    /\ chan = <<>>
    /\ \A w \in DOMAIN queue : queue[w] = <<>>
    /\ mpc' = IF estats = None THEN "failed" ELSE "pooldrop"
    /\ UNCHANGED <<rows, eflags, idx, flag_jobs, estrategy, pos, estats, out, queue,
                   wstate, chan, merged, failedTasks, aggVars, joinVars, finVars>>

\* parallel_stats returns and the pool is dropped: Quit is sent to every
\* worker, which panics the main task if a worker's receiver is gone
ParPoolDrop ==
    /\ mpc = "pooldrop"
    /\ mpc' = IF \E w \in DOMAIN wstate : wstate[w] = "dead" THEN "failed" ELSE "convert"
    /\ UNCHANGED <<rows, eflags, idx, flag_jobs, estrategy, pos, estats, out, queue,
                   wstate, chan, merged, failedTasks, aggVars, joinVars, finVars>>

\* stats_to_records, then the header row and one row per column are written
Write ==
    /\ mpc = "convert"
    /\ out' = OutputOf(Unwrap(estats))
    /\ mpc' = "done"
    /\ UNCHANGED <<rows, eflags, idx, flag_jobs, estrategy, pos, estats, queue,
                   wstate, chan, merged, failedTasks, aggVars, joinVars, finVars>>

Next ==
    \/ Decide
    \/ SeqRow
    \/ SeqEnd
    \/ ParStart
    \/ ParExecute
    \/ ParDropSend
    \/ \E w \in 1..(MaxJobs + NumCpus) : WorkerRun(w)
    \/ \E w \in 1..(MaxJobs + NumCpus) : WorkerDie(w)
    \/ ParCollect
    \/ ParCollectEnd
    \/ ParPoolDrop
    \/ Write

Spec == Init /\ [][Next]_vars

(***************************************************************************)
(* SpecFin: stats_to_records, its task pool and its per-column channels    *)
(***************************************************************************)
RECURSIVE AddAll(_, _)
\* Stats::add of each sample in turn
AddAll(st, samples) ==
    IF samples = <<>> THEN st ELSE AddAll(StatsAdd(st, Head(samples)), Tail(samples))

AllOn == [nulls |-> TRUE, cardinality |-> TRUE, median |-> TRUE, mode |-> TRUE]

\* the column aggregates stats_to_records is given
FinColumns ==
    {AddAll(StatsNew(new_stats_which(AllOn)), <<>>),
     AddAll(StatsNew(new_stats_which(AllOn)), <<"2", "1.5">>),
     AddAll(StatsNew(new_stats_which(AllOn)), <<"a", "a">>)}

InitFin ==
    /\ fstats \in SeqsUpTo(FinColumns, MaxCols)
    /\ flag_jobs \in 0..MaxJobs
    /\ fpc = "execute"
    /\ fi = 0
    /\ fqueue = [w \in 1..njobs |-> <<>>]
    /\ fchan = [i \in 1..Len(fstats) |-> None]
    /\ frecords = [i \in 1..Len(fstats) |-> <<>>]
    /\ fdone = <<>>
    /\ rows = <<>> /\ eflags = None /\ idx = FALSE
    /\ mpc = "idle" /\ estrategy = "none" /\ pos = 0 /\ estats = None /\ out = <<>>
    /\ queue = <<>> /\ wstate = <<>> /\ chan = <<>> /\ merged = <<>>
    /\ failedTasks = {}
    /\ AggIdle
    /\ JoinIdle

finFrame == <<aggVars, joinVars, engVars>>

\* the mutant of RxFor: the record is taken from whichever channel has one
RxForAnyReady(i) ==
    IF \E j \in 1..Len(fchan) : fchan[j] # None /\ fchan[j] # "closed"
    THEN CHOOSE j \in 1..Len(fchan) :
            /\ fchan[j] # None /\ fchan[j] # "closed"
            /\ \A k \in 1..Len(fchan) :
                  fchan[k] # None /\ fchan[k] # "closed" => j <= k
    ELSE i + 1

\* the receiver that `for (i, rx) in results.into_iter().enumerate()` pairs
\* with records[i]: the one pushed for column i
RxFor(i) == i + 1

\* the first loop: a channel for column fi, its receiver pushed on
\* `results`, and the proc, owning the aggregate and the sender, queued to
\* the next worker in turn
FinExecute ==
    /\ fpc = "execute"
    /\ fi < Len(fstats)
    /\ fqueue' = [fqueue EXCEPT ![(fi % njobs) + 1] = Append(@, fi + 1)]
    /\ fi' = fi + 1
    /\ UNCHANGED <<fstats, fpc, fchan, frecords, fdone, finFrame>>

\* every aggregate has been dispatched: on to the second loop
FinExecuted ==
    /\ fpc = "execute"
    /\ fi = Len(fstats)
    /\ fpc' = "recv"
    /\ fi' = 0
    /\ UNCHANGED <<fstats, fqueue, fchan, frecords, fdone, finFrame>>

\* a pool worker runs its next proc: tx.send(stat.to_record()); a panic in
\* to_record would drop tx unsent
FinWork(w) ==
    /\ fpc \in {"execute", "recv"}
    /\ w \in DOMAIN fqueue
    /\ fqueue[w] # <<>>
    /\ LET c == Head(fqueue[w])
       IN  /\ fchan' = [fchan EXCEPT ![c] =
                           IF StatsToRecordPanics(fstats[c]) THEN "closed"
                           ELSE Some(StatsToRecord(fstats[c]))]
           /\ fdone' = Append(fdone, c)
    /\ fqueue' = [fqueue EXCEPT ![w] = Tail(@)]
    /\ UNCHANGED <<fstats, fpc, fi, frecords, finFrame>>

\* the second loop: records[i] = rx.recv(), which waits for the record and
\* panics if the sender is gone without one
FinRecv ==
    /\ fpc = "recv"
    /\ fi < Len(fstats)
    /\ fchan[RxFor(fi)] # None
    /\ IF fchan[RxFor(fi)] = "closed"
       THEN /\ fpc' = "failed"
            /\ UNCHANGED <<frecords, fchan, fi>>
       ELSE /\ frecords' = [frecords EXCEPT ![fi + 1] = Unwrap(fchan[RxFor(fi)])]
            /\ fchan' = [fchan EXCEPT ![RxFor(fi)] = None]
            /\ fi' = fi + 1
            /\ UNCHANGED fpc
    /\ UNCHANGED <<fstats, fqueue, fdone, finFrame>>

\* `records` is returned
FinReturn ==
    /\ fpc = "recv"
    /\ fi = Len(fstats)
    /\ fpc' = "done"
    /\ UNCHANGED <<fstats, fi, fqueue, fchan, frecords, fdone, finFrame>>

FinMain == FinExecute \/ FinExecuted \/ FinRecv \/ FinReturn

NextFin ==
    \/ FinExecute
    \/ FinExecuted
    \/ \E w \in 1..(MaxJobs + NumCpus) : FinWork(w)
    \/ FinRecv
    \/ FinReturn

\* the calling task and every pool worker are threads the scheduler keeps
\* running
SpecFin ==
    /\ InitFin
    /\ [][NextFin]_vars
    /\ WF_vars(FinMain)
    /\ \A w \in 1..(MaxJobs + NumCpus) : WF_vars(FinWork(w))

(***************************************************************************)
(* Claims                                                                  *)
(***************************************************************************)
\* the field of a finalized record that stands under header `name`
FieldOf(st, rec, name) ==
    LET h == stat_headers(st.which)
        p == CHOOSE q \in 1..Len(h) : h[q] = name
    IN  rec[p - 1]

HasField(st, name) == name \in Range(stat_headers(st.which))

\* the (aggregate, record) pairs finalized in SpecAgg
Finalized ==
    IF aphase = "done"
    THEN {<<Unwrap(whole), Unwrap(arec).whole>>, <<parts[1], Unwrap(arec).merged>>}
    ELSE {}

\* C1: feeding a sample sequence in chunks to separate aggregates, merging
\* them in any order and finalizing gives the same record as feeding the
\* whole sequence to one aggregate and finalizing.
C1_SplitMergeEqualsOnePass ==
    aphase = "done" => Unwrap(arec).merged = Unwrap(arec).whole

\* parallel_stats has returned Ok((headers, stats))
ParallelOk == estrategy = "parallel" /\ mpc \in {"convert", "done"}

\* C2: if a worker task of the parallel strategy fails, the engine never
\* returns a successful result (one merged from the other workers' vectors).
C2_WorkerFailureAborts == ParallelOk => failedTasks = {}

RECURSIVE MergeChunks(_, _)
\* the vectors of chunks i, i+1, ... merged into acc in chunk order
MergeChunks(acc, i) ==
    IF i >= nchunks THEN acc
    ELSE MergeChunks(VecMerge(acc, compute(ChunkRows(i)).stats), i + 1)

\* what one worker running the chunks in order delivers, merged
InOrderMerge == MergeChunks(compute(ChunkRows(0)).stats, 1)

\* C4: for a given chunking, the result of the parallel strategy is the
\* same whatever the pool size and the order in which the vectors arrive:
\* it is the merge of the vectors of all the chunks.
C4_ParallelResultIsChunkFold ==
    ParallelOk =>
        /\ \A i \in 0..nchunks - 1 : compute(ChunkRows(i)).ok
        /\ RecordsOf(Unwrap(estats)) = RecordsOf(InOrderMerge)

\* what does hold of the collector: when no task has failed, the result is
\* the merge of the vectors of all the chunks, whatever the arrival order
ParallelFoldWhenNoTaskFails ==
    ParallelOk /\ failedTasks = {} =>
        /\ Len(merged) = nchunks
        /\ RecordsOf(Unwrap(estats)) = RecordsOf(InOrderMerge)

\* C5: the parallel strategy runs iff there is an index and --jobs is not
\* 1, the sequential one otherwise; --jobs 0 with an index makes the pool as
\* large as the number of CPUs.
C5_StrategyChoice ==
    estrategy # "none" =>
        /\ estrategy = "parallel" <=> (idx /\ flag_jobs # 1)
        /\ estrategy = "sequential" <=> (~idx \/ flag_jobs = 1)
        /\ wstate # <<>> =>
              /\ estrategy = "parallel"
              /\ Len(wstate) = IF flag_jobs = 0 THEN NumCpus ELSE flag_jobs

C5_Witness ==
    /\ estrategy = "parallel"
    /\ flag_jobs = 0
    /\ Len(wstate) = NumCpus
    /\ mpc = "done"

\* C3: the FieldType join is commutative, associative and idempotent, Null
\* is its identity and Unknown absorbs.
C3_JoinLaws ==
    IsSome(jout) =>
        LET r == Unwrap(jout)
            x == Unwrap(jin)[1]
        IN  /\ r.xy = r.yx
            /\ r.xy_z = r.x_yz
            /\ r.xx = x
            /\ r.nx = x
            /\ r.ux = TUnknown

C3_Witness ==
    /\ IsSome(jout)
    /\ Unwrap(jin) = <<TInteger, TFloat, TUnicode>>
    /\ Unwrap(jout).xy = TFloat
    /\ Unwrap(jout).xy_z = TUnicode

\* C6: a finalized record is type, min, max, mean, stddev, then median, mode
\* and cardinality in that order, each present exactly when enabled: its
\* length is 5 plus the number of enabled optional statistics, and it lines
\* up with the header row without its "field" column.
C6_RecordShape ==
    \A p \in Finalized :
        LET st == p[1]
            rec == p[2]
            w == st.which
            nopt == (IF w.median THEN 1 ELSE 0) + (IF w.mode THEN 1 ELSE 0)
                    + (IF w.cardinality THEN 1 ELSE 0)
        IN  /\ Len(rec) = 5 + nopt
            /\ Len(rec) = Len(stat_headers(w)) - 1
            /\ HasField(st, "median") <=> w.median
            /\ HasField(st, "mode") <=> w.mode
            /\ HasField(st, "cardinality") <=> w.cardinality
            /\ rec[1] = FieldTypeToString(st.typ)
            /\ <<rec[2], rec[3]>> = RecMinMax(st)
            /\ <<rec[4], rec[5]>> = RecDist(st)
            /\ w.median => <<rec[6]>> = RecMedian(st)
            /\ w.mode => rec[6 + (IF w.median THEN 1 ELSE 0)] = ModeField(Unwrap(st.mode))
            /\ w.cardinality => rec[5 + nopt] = CardinalityField(Unwrap(st.mode))
            /\ w.mode => FieldOf(st, rec, "mode") = ModeField(Unwrap(st.mode))
            /\ w.cardinality =>
                  FieldOf(st, rec, "cardinality") = CardinalityField(Unwrap(st.mode))
            /\ w.median => <<FieldOf(st, rec, "median")>> = RecMedian(st)

C6_Witness ==
    /\ aphase = "done"
    /\ Unwrap(whole).which.median /\ ~Unwrap(whole).which.mode
    /\ Unwrap(whole).which.cardinality
    /\ fed = <<"2", "a", "2">>
    /\ Unwrap(arec).whole = <<"Unicode", "2", "a", "", "", "2", "2">>

\* C7 as stated: a configured statistic whose buffer is empty is finalized
\* as the empty string, for median, mode and cardinality alike.
C7_EmptyBufferEmptyString ==
    \A p \in Finalized :
        LET st == p[1]
            rec == p[2]
        IN  /\ st.which.median /\ Unwrap(st.median) = <<>>
                => FieldOf(st, rec, "median") = ""
            /\ st.which.mode /\ Unwrap(st.mode) = <<>>
                => FieldOf(st, rec, "mode") = ""
            /\ st.which.cardinality /\ Unwrap(st.mode) = <<>>
                => FieldOf(st, rec, "cardinality") = ""

\* C7 amended: with an empty buffer the median field is the empty string,
\* the mode field is "N/A" and the cardinality field is "0".
C7_EmptyBufferFields ==
    \A p \in Finalized :
        LET st == p[1]
            rec == p[2]
        IN  /\ st.which.median /\ Unwrap(st.median) = <<>>
                => FieldOf(st, rec, "median") = ""
            /\ st.which.mode /\ Unwrap(st.mode) = <<>>
                => FieldOf(st, rec, "mode") = "N/A"
            /\ st.which.cardinality /\ Unwrap(st.mode) = <<>>
                => FieldOf(st, rec, "cardinality") = "0"

C7_Witness ==
    /\ aphase = "done"
    /\ fed = <<>>
    /\ Unwrap(whole).which.median /\ Unwrap(whole).which.mode
    /\ Unwrap(whole).which.cardinality
    /\ Unwrap(whole).median = Some(<<>>) /\ Unwrap(whole).mode = Some(<<>>)
    /\ FieldOf(Unwrap(whole), Unwrap(arec).whole, "median") = ""
    /\ FieldOf(Unwrap(whole), Unwrap(arec).whole, "mode") = "N/A"
    /\ FieldOf(Unwrap(whole), Unwrap(arec).whole, "cardinality") = "0"

\* C8: merging two aggregates whose WhichStats differ never completes.
C8_MismatchIsFatal ==
    /\ IsSome(mixCfg) /\ Unwrap(mixCfg)[1] # Unwrap(mixCfg)[2] => aphase # "merge"
    /\ IsSome(mixCfg) /\ aphase = "panic" => Unwrap(mixCfg)[1] # Unwrap(mixCfg)[2]

C8_Witness ==
    /\ aphase = "panic"
    /\ Len(fed) >= 2
    /\ Unwrap(mixCfg)[1].median /\ ~Unwrap(mixCfg)[2].median
    /\ Unwrap(mixCfg)[1].range = Unwrap(mixCfg)[2].range

\* C9: stats_to_records ends, whatever the pool size and the order in which
\* the procs run, and returns one record per aggregate, the i-th being the
\* finalization of the i-th aggregate.
C9_RecordsInColumnOrder ==
    /\ <>(fpc = "done")
    /\ [](fpc = "done" => /\ Len(frecords) = Len(fstats)
                          /\ \A i \in 1..Len(fstats) :
                                frecords[i] = StatsToRecord(fstats[i]))

C9_Witness ==
    /\ fpc = "done"
    /\ Len(fstats) = 3
    /\ fstats[1] # fstats[2] /\ fstats[2] # fstats[3] /\ fstats[1] # fstats[3]
    /\ fdone = <<2, 1, 3>>
    /\ frecords = RecordsOf(fstats)

\* C10: a column whose final type is Unicode or Unknown has empty mean and
\* stddev fields and, when median is enabled, an empty median field.
C10_NonNumericHasNoNumericStats ==
    \A p \in Finalized :
        LET st == p[1]
            rec == p[2]
        IN  st.typ \in {TUnicode, TUnknown} =>
                /\ FieldOf(st, rec, "mean") = ""
                /\ FieldOf(st, rec, "stddev") = ""
                /\ st.which.median => FieldOf(st, rec, "median") = ""

\* how many times x occurs in the sequence s
Occurrences(s, x) == Cardinality({i \in 1..Len(s) : s[i] = x})

\* C11: with cardinality enabled, after any adds and merges the byte-string
\* buffer holds every sample fed to any operand, each as often as it was fed
\* (nothing is dropped), and the cardinality field is the number of distinct
\* values among them.
C11_CardinalityCountsDistinct ==
    \A p \in Finalized :
        p[1].which.cardinality =>
            /\ \A x \in Samples :
                  Occurrences(Unwrap(p[1].mode), x) = Occurrences(fed, x)
            /\ FieldOf(p[1], p[2], "cardinality") = ToString(Cardinality(Range(fed)))

C11_Witness ==
    /\ aphase = "done"
    /\ Unwrap(whole).which.cardinality
    /\ fed = <<"a", "", "a">>
    /\ chunkLen = 1
    /\ FieldOf(parts[1], Unwrap(arec).merged, "cardinality") = "2"

\* the position (from 1) of the first malformed row of the input, 0 if none
FirstMalformed ==
    IF \A i \in 1..Len(rows) : rows[i].ok THEN 0
    ELSE CHOOSE i \in 1..Len(rows) : ~rows[i].ok /\ \A j \in 1..i - 1 : rows[j].ok

\* C12: in the sequential strategy a malformed row, wherever it stands, ends
\* compute at once (no row from it on is ever added) and the run fails
\* with nothing written: no header row, no statistics record.
C12_SequentialMalformedRowAborts ==
    estrategy = "sequential" /\ FirstMalformed # 0 =>
        /\ pos < FirstMalformed
        /\ mpc \in {"seq", "failed"}
        /\ out = <<>>
        /\ mpc = "failed" =>
              /\ pos = FirstMalformed - 1
              /\ estats = Some(compute(SubSeq(rows, 1, FirstMalformed - 1)).stats)

C12_Witness ==
    /\ estrategy = "sequential"
    /\ Len(rows) = 3
    /\ rows[1].ok /\ ~rows[2].ok /\ rows[3].ok
    /\ mpc = "failed"
    /\ pos = 1
    /\ out = <<>>

\* ceil(a / b) for b > 0
CeilDiv(a, b) == (a + b - 1) \div b

\* C13: the parallel strategy cuts R rows for W workers into chunks of
\* ceil(R / W) rows, and into N = ceil(R / chunk size) chunks.
C13_ChunkSizeIsCeiling ==
    estrategy = "parallel" /\ mpc # "par" =>
        /\ chunk_size = CeilDiv(Len(rows), njobs)
        /\ chunk_size > 0 => nchunks = CeilDiv(Len(rows), chunk_size)

\* the positions (from 0) of the rows task i consumes: it seeks to row
\* i * chunk_size and takes at most chunk_size rows
ChunkPositions(i) ==
    {r \in 0..Len(rows) - 1 : i * chunk_size <= r /\ r < (i + 1) * chunk_size}

\* C14: for R >= 1 rows and any pool size, R < W included, the ranges of the
\* dispatched tasks partition the rows: each row is consumed by exactly one
\* task.
C14_ChunksPartitionRows ==
    estrategy = "parallel" /\ mpc # "par" /\ Len(rows) >= 1 =>
        /\ chunk_size > 0
        /\ \A r \in 0..Len(rows) - 1 :
              Cardinality({i \in 0..nchunks - 1 : r \in ChunkPositions(i)}) = 1

\* what does hold: when there are at least as many rows as workers, the
\* ranges partition the rows and are the rows the tasks read
ChunksPartitionWhenRowsCoverWorkers ==
    estrategy = "parallel" /\ mpc # "par" /\ Len(rows) >= njobs =>
        /\ \A r \in 0..Len(rows) - 1 :
              Cardinality({i \in 0..nchunks - 1 : r \in ChunkPositions(i)}) = 1
        /\ \A i \in 0..nchunks - 1 :
              /\ Len(ChunkRows(i)) = Cardinality(ChunkPositions(i))
              /\ \A k \in 1..Len(ChunkRows(i)) :
                    ChunkRows(i)[k] = rows[i * chunk_size + k]

\* how far a type is from the most specific one; Null is not on the chain
TypeRank(t) ==
    CASE t = TInteger -> 0
      [] t = TFloat   -> 1
      [] t = TUnicode -> 2
      [] t = TUnknown -> 3
      [] t = TNull    -> 0 - 1

\* an add or a merge leaves no aggregate with a more specific type: the
\* one-pass aggregate only moves on, each chunk aggregate only moves on
\* under add, and a merged aggregate is no more specific than either operand
TypeOnlyRelaxes ==
    /\ IsSome(whole) /\ IsSome(whole') =>
          TypeRank(Unwrap(whole').typ) >= TypeRank(Unwrap(whole).typ)
    /\ Len(parts') = Len(parts) =>
          \A k \in 1..Len(parts) : TypeRank(parts'[k].typ) >= TypeRank(parts[k].typ)
    /\ Len(parts') < Len(parts) =>
          \E i \in 1..Len(parts), j \in 1..Len(parts) :
             /\ i # j
             /\ parts' = RemoveAt([parts EXCEPT ![i] = StatsMerge(parts[i], parts[j])], j)
             /\ \A q \in Range(parts') :
                   q = StatsMerge(parts[i], parts[j]) =>
                       /\ TypeRank(q.typ) >= TypeRank(parts[i].typ)
                       /\ TypeRank(q.typ) >= TypeRank(parts[j].typ)

TypeNeverNull ==
    /\ IsSome(whole) => Unwrap(whole).typ # TNull
    /\ \A k \in 1..Len(parts) : parts[k].typ # TNull

EmptyColumnIsInteger ==
    \A p \in Finalized :
        (\A k \in 1..Len(fed) : fed[k] = "") => p[1].typ = TInteger /\ p[2][1] = "Integer"

\* C15: from fresh aggregates on, adds and merges move the running type only
\* along Integer -> Float -> Unicode -> Unknown, never to Null; a column with
\* no sample, or with empty samples only, is finalized as Integer.
C15_TypeOnlyRelaxes ==
    /\ [][TypeOnlyRelaxes]_vars
    /\ [](TypeNeverNull /\ EmptyColumnIsInteger)

C15_Witness ==
    /\ aphase = "done"
    /\ fed = <<"", "2", "1.5">>
    /\ chunkLen = 1
    /\ Unwrap(whole).typ = TFloat
    /\ parts[1].typ = TFloat

\* the numeric values (in halves) of the non-empty samples fed so far
FedValues == {Unwrap(from_bytes_f64(fed[k])) : k \in {i \in 1..Len(fed) : fed[i] # ""}}

\* a numeric bound as to_record shows it for a column of type typ
BoundToString(typ, h) == IF typ = TInteger THEN I64ToString(h \div 2) ELSE F64ToString(h)

\* C16: for a column whose final type is Integer or Float, the min and max
\* fields are the numeric minimum and maximum of all its non-empty samples,
\* in whatever order they were added.
C16_NumericBoundsOverAllSamples ==
    \A p \in Finalized :
        is_number(p[1].typ) /\ FedValues # {} =>
            /\ FieldOf(p[1], p[2], "min") =
                  BoundToString(p[1].typ, CHOOSE v \in FedValues : \A u \in FedValues : v <= u)
            /\ FieldOf(p[1], p[2], "max") =
                  BoundToString(p[1].typ, CHOOSE v \in FedValues : \A u \in FedValues : v >= u)

\* the sub-aggregators an aggregate holds are those its WhichStats implies
SubAggregatorsAsConfigured(st) ==
    /\ IsSome(st.minmax) <=> st.which.range
    /\ IsSome(st.online) <=> st.which.dist
    /\ IsSome(st.mode) <=> (st.which.mode \/ st.which.cardinality)
    /\ IsSome(st.median) <=> st.which.median

\* C17: which sub-aggregators an aggregate holds is settled by its
\* WhichStats when it is built (range tracker iff range, online aggregator
\* iff dist, byte-string buffer iff mode or cardinality, numeric buffer iff
\* median); its WhichStats and that set stay as they are through every add
\* and every merge with an aggregate of equal WhichStats.
C17_SubAggregatorsFixed ==
    IsSome(mixCfg) =>
        /\ aphase = "feed" =>
              \A k \in 1..2 : /\ parts[k].which = Unwrap(mixCfg)[k]
                              /\ SubAggregatorsAsConfigured(parts[k])
        /\ aphase = "merge" =>
              /\ parts[1].which = Unwrap(mixCfg)[1]
              /\ SubAggregatorsAsConfigured(parts[1])

C17_Witness ==
    /\ IsSome(mixCfg)
    /\ aphase = "merge"
    /\ Len(fed) = MaxLen
    /\ Unwrap(mixCfg)[1] = Unwrap(mixCfg)[2]
    /\ parts[1].which.cardinality /\ ~parts[1].which.mode /\ ~parts[1].which.range
    /\ parts[1].minmax = None
    /\ IsSome(parts[1].mode) /\ Len(Unwrap(parts[1].mode)) = MaxLen

\* the aggregates of SpecAgg that an add or a to_record can be called on
Aggregates == (IF IsSome(whole) THEN {Unwrap(whole)} ELSE {}) \cup Range(parts)

\* C18: whatever was added and merged before, and whatever the flags, the
\* next add takes no fatal path, whichever sample it is given: under the
\* running type Integer or Float a non-empty sample parses (as i64 in the
\* range tracker under Integer, as f64 otherwise), and neither the range
\* tracker's add nor its show meets the type Null.
C18_AddNeverPanics ==
    \A st \in Aggregates :
        /\ \A s \in Samples :
              LET t == FieldTypeMerge(st.typ, from_sample(s))
              IN  /\ ~StatsAddPanics(st, s)
                  /\ s # "" => t # TNull
                  /\ s # "" /\ t = TInteger => IsSome(from_bytes_i64(s))
                  /\ s # "" /\ is_number(t) => IsSome(from_bytes_f64(s))
        /\ ~StatsToRecordPanics(st)
        /\ st.typ # TNull

C18_Witness ==
    /\ aphase = "done"
    /\ fed = <<"1.5", "2", "">>
    /\ chunkLen = 2
    /\ Unwrap(whole).typ = TFloat
    /\ Unwrap(Unwrap(whole).minmax).floats.max = Some(4)
    /\ Unwrap(Unwrap(whole).minmax).integers.min = Some(1)

\* what Stats::add of the empty sample may change of an aggregate: the
\* online aggregator, by one null observation, when nulls count and the
\* type is numeric; the type, the range tracker and the numeric buffer stay
NullAddFrame(before, after) ==
    /\ after.typ = before.typ
    /\ after.minmax = before.minmax
    /\ after.median = before.median
    /\ after.which = before.which
    /\ after.online =
          IF before.which.include_nulls /\ is_number(before.typ) /\ IsSome(before.online)
          THEN Some(OnlineAddNull(Unwrap(before.online)))
          ELSE before.online

\* C19: adding an empty sample leaves the running type, the three min/max
\* trackers and the numeric (median) buffer as they were, and touches the
\* online aggregator only with a null observation, and only when nulls are
\* counted and the running type is Integer or Float.
C19_NullAddFrame ==
    [][fed' = Append(fed, "") =>
          /\ NullAddFrame(Unwrap(whole), Unwrap(whole'))
          /\ Len(parts') = Len(parts)
          /\ NullAddFrame(parts[Len(parts)], parts'[Len(parts)])]_vars

C19_Witness ==
    /\ aphase = "feed"
    /\ fed = <<"1.5", "", "a">>
    /\ Unwrap(whole).which.include_nulls
    /\ Unwrap(whole).which.median
    /\ Unwrap(Unwrap(whole).online).size = 2
    /\ Unwrap(whole).median = Some(<<3>>)

(***************************************************************************)
(* SpecFair: run under a scheduler that keeps every task running           *)
(***************************************************************************)
\* the steps of the main task
MainStep ==
    \/ Decide
    \/ SeqRow
    \/ SeqEnd
    \/ ParStart
    \/ ParExecute
    \/ ParDropSend
    \/ ParCollect
    \/ ParCollectEnd
    \/ ParPoolDrop
    \/ Write

\* the steps of pool worker w: running its next proc, and, once a proc has
\* panicked, unwinding to the end
WorkerStep(w) == WorkerRun(w) \/ WorkerDie(w)

\* the main task and the pool workers are threads of one process; each one
\* that can take a step eventually takes it
SpecFair ==
    /\ Init
    /\ [][Next]_vars
    /\ WF_vars(MainStep)
    /\ \A w \in 1..(MaxJobs + NumCpus) : WF_vars(WorkerStep(w))

\* the chunks whose vector has been sent: received and merged, or in flight
Delivered == merged \o [k \in 1..Len(chan) |-> chan[k].chunk]

\* no task delivers more than one vector
AtMostOneVectorPerTask ==
    \A a \in 1..Len(Delivered), b \in 1..Len(Delivered) :
        Delivered[a] = Delivered[b] => a = b

\* C20: under fair scheduling the parallel strategy ends, with a result or
\* with a fatal abort, for any number of rows, chunks and workers; no task
\* delivers more than one vector; and when it ends with a result the
\* collector has merged exactly one vector per chunk.
C20_ParallelTerminatesWithAllChunks ==
    /\ <>(mpc \in {"done", "failed"})
    /\ [](estrategy = "parallel" =>
             /\ AtMostOneVectorPerTask
             /\ ParallelOk => /\ Len(merged) = nchunks
                              /\ Range(merged) = 0..nchunks - 1)

\* what does hold under fair scheduling: the run ends, no task delivers
\* twice, and the collector never ends while a vector can still arrive
ParallelTerminates ==
    /\ <>(mpc \in {"done", "failed"})
    /\ [](estrategy = "parallel" =>
             /\ AtMostOneVectorPerTask
             /\ mpc \in {"pooldrop", "convert", "done"} =>
                   /\ chan = <<>>
                   /\ \A w \in DOMAIN queue : queue[w] = <<>>
                   /\ Range(merged) \cup failedTasks \subseteq 0..nchunks - 1)

====
